---- MODULE Spec2Model ----
(***************************************************************************)
(* Model of the biblioteca API: the relational store (users, categories,   *)
(* books, loans), the request handlers of backend/routers and the loan     *)
(* rules (eligibility, availability bookkeeping, overdue classification).  *)
(*                                                                         *)
(* A table is a function from the ids of its rows to records.  A handler   *)
(* is an operator from the store, the caller and the request to the new    *)
(* store and the HTTP answer; an action applies one handler.  Time is the  *)
(* server clock (datetime.utcnow) in days.                                 *)
(***************************************************************************)
EXTENDS Integers, Sequences, FiniteSets, TLC

VARIABLES users, categories, books, loans, nextId, now, last, sess, base

vars == <<users, categories, books, loans, nextId, now, last, sess, base>>

(***************************************************************************)
(* Program constants.                                                      *)
(***************************************************************************)
LOAN_DURATION_DAYS == 14
MAX_ACTIVE_LOANS == 3
\* a column left NULL, an optional field of a request left out (None)
NULL == -1

(***************************************************************************)
(* Bounds of the model.                                                    *)
(***************************************************************************)
\* rows ever inserted in the books table
MaxBooks == 2
\* rows ever inserted in the loans table
MaxLoans == 3
\* largest quantity a request carries
MaxQty == 2
\* last instant of the clock
MaxNow == 15
\* rows ever inserted in the loans table where the clock stands still
MaxCapLoans == 4
\* category ids
MaxCategories == 3
\* user ids
MaxUsers == 5
\* rows ever inserted in the loans table while the catalogue changes
MaxLent == 2

UserRole == {"admin", "librarian", "member"}
LoanStatus == {"active", "returned", "overdue"}

\* the ISBNs requests carry
Isbns == {101, 102}

(***************************************************************************)
(* The store as one value, and the rows the seed script leaves behind.     *)
(***************************************************************************)
DB == [users |-> users, categories |-> categories, books |-> books,
       loans |-> loans, nextId |-> nextId]

Empty == <<>>

seed_users ==
    (1 :> [username |-> "admin", email |-> "admin@biblioteca.com", role |-> "admin"])
 @@ (2 :> [username |-> "bibliotecario", email |-> "biblio@biblioteca.com", role |-> "librarian"])
 @@ (3 :> [username |-> "joao", email |-> "joao@email.com", role |-> "member"])
 @@ (4 :> [username |-> "maria", email |-> "maria@email.com", role |-> "member"])

seed_categories ==
    (1 :> [name |-> "Ficcao Cientifica"])
 @@ (2 :> [name |-> "Romance"])

Remove(table, ids) == [i \in DOMAIN table \ ids |-> table[i]]

Insert(table, id, row) == (id :> row) @@ table

Answer(db, code, detail) == [db |-> db, code |-> code, detail |-> detail]

(***************************************************************************)
(* Loan rules: backend/routers/loans.py                                    *)
(***************************************************************************)
ActiveLoansOf(ls, user_id) ==
    {i \in DOMAIN ls : ls[i].user_id = user_id /\ ls[i].status = "active"}

OverdueLoansOf(ls, user_id, t) ==
    {i \in DOMAIN ls : /\ ls[i].user_id = user_id
                       /\ ls[i].status = "active"
                       /\ ls[i].due_date < t}

\* variant: the limit compared with > where the code has >=
check_user_can_borrow_gt(ls, user_id, t) ==
    IF Cardinality(ActiveLoansOf(ls, user_id)) > MAX_ACTIVE_LOANS
    THEN "too_many_active"
    ELSE IF OverdueLoansOf(ls, user_id, t) # {} THEN "has_overdue" ELSE "ok"

\* variant: the due dates are not looked at
check_user_can_borrow_count_only(ls, user_id, t) ==
    IF Cardinality(ActiveLoansOf(ls, user_id)) >= MAX_ACTIVE_LOANS
    THEN "too_many_active"
    ELSE "ok"

\* variant: a loan stored with status overdue blocks its borrower too
check_user_can_borrow_stored_overdue(ls, user_id, t) ==
    IF Cardinality(ActiveLoansOf(ls, user_id)) >= MAX_ACTIVE_LOANS
    THEN "too_many_active"
    ELSE IF \E i \in DOMAIN ls : /\ ls[i].user_id = user_id
                                 /\ ls[i].status \in {"active", "overdue"}
                                 /\ ls[i].due_date < t
         THEN "has_overdue"
         ELSE "ok"

\* "ok", or the reason of the 400 answer
check_user_can_borrow(ls, user_id, t) ==
    IF Cardinality(ActiveLoansOf(ls, user_id)) >= MAX_ACTIVE_LOANS
    THEN "too_many_active"
    ELSE IF OverdueLoansOf(ls, user_id, t) # {} THEN "has_overdue" ELSE "ok"

\* variant: a book with no copy left still counts as available
check_book_available_lt(bs, book_id) ==
    IF book_id \notin DOMAIN bs THEN "not_found"
    ELSE IF bs[book_id].available < 0 THEN "not_available"
    ELSE "ok"

\* "ok", or the reason of the 404 / 400 answer
check_book_available(bs, book_id) ==
    IF book_id \notin DOMAIN bs THEN "not_found"
    ELSE IF bs[book_id].available <= 0 THEN "not_available"
    ELSE "ok"

\* variant: the loan runs one day longer
NewLoan_one_day_more(book_id, user_id, t) ==
    [book_id |-> book_id, user_id |-> user_id, loan_date |-> t,
     due_date |-> t + LOAN_DURATION_DAYS + 1, return_date |-> NULL,
     status |-> "active"]

\* variant: a loan counts as overdue on its due date already
list_overdue_loans_le(ls, t) ==
    {i \in DOMAIN ls : ls[i].status = "active" /\ ls[i].due_date <= t}

\* GET /loans/overdue: the loans the listing selects
list_overdue_loans(ls, t) ==
    {i \in DOMAIN ls : ls[i].status = "active" /\ ls[i].due_date < t}

\* GET /loans?status=...: the loans the status filter selects
list_loans(ls, status_filter, t) ==
    IF status_filter = "overdue"
    THEN {i \in DOMAIN ls : ls[i].status = "active" /\ ls[i].due_date < t}
    ELSE {i \in DOMAIN ls : ls[i].status = status_filter}

\* the status a listing request carries when it carries none
NoStatus == ""

\* .order_by(Loan.loan_date.desc()): the orders in which the database may
\* give the rows; rows of one loan date come in any order
RECURSIVE LoanOrders(_, _)
LoanOrders(ls, ids) ==
    IF ids = {} THEN {<<>>}
    ELSE LET latest == {i \in ids :
                            \A j \in ids : ls[i].loan_date >= ls[j].loan_date}
         IN  UNION {{<<i>> \o o : o \in LoanOrders(ls, ids \ {i})} :
                        i \in latest}

\* .offset(offset).limit(limit): the rows of one page, id and columns
PageOf(ls, o, page, limit) ==
    LET offset == (page - 1) * limit
        n == IF Len(o) <= offset THEN 0
             ELSE IF Len(o) - offset <= limit THEN Len(o) - offset
             ELSE limit
    IN  [k \in 1..n |-> <<o[offset + k], ls[o[offset + k]]>>]

\* the answer of a listing: the count of the query and the pages the
\* database may give
Listing(ls, ids, page, limit) ==
    [code |-> 200, detail |-> "listed", total |-> Cardinality(ids),
     pages |-> {PageOf(ls, o, page, limit) : o \in LoanOrders(ls, ids)}]

Refused(code, detail) ==
    [code |-> code, detail |-> detail, total |-> 0, pages |-> {}]

\* variant: a member's request is filtered as a librarian's is
list_loans_request_as_staff(db, caller, q, t) ==
    LET ls == db.loans
        seen == IF q.user_id # NULL /\ q.user_id # 0
                THEN {i \in DOMAIN ls : ls[i].user_id = q.user_id}
                ELSE DOMAIN ls
        byStatus == IF q.status = NoStatus THEN seen
                    ELSE seen \cap list_loans(ls, q.status, t)
        byBook == IF q.book_id # NULL /\ q.book_id # 0
                  THEN {i \in byStatus : ls[i].book_id = q.book_id}
                  ELSE byStatus
    IN  IF q.status \notin {NoStatus, "overdue", "active", "returned"}
        THEN Refused(400, "invalid_status")
        ELSE Listing(ls, byBook, q.page, q.limit)

\* GET /loans: the whole handler; q is the query string
list_loans_request(db, caller, q, t) ==
    LET ls == db.loans
        member == db.users[caller].role = "member"
        seen == IF member THEN {i \in DOMAIN ls : ls[i].user_id = caller}
                ELSE IF q.user_id # NULL /\ q.user_id # 0
                THEN {i \in DOMAIN ls : ls[i].user_id = q.user_id}
                ELSE DOMAIN ls
        byStatus == IF q.status = NoStatus THEN seen
                    ELSE seen \cap list_loans(ls, q.status, t)
        byBook == IF q.book_id # NULL /\ q.book_id # 0
                  THEN {i \in byStatus : ls[i].book_id = q.book_id}
                  ELSE byStatus
    IN  IF member /\ q.user_id # NULL /\ q.user_id # 0 /\ q.user_id # caller
        THEN Refused(403, "not_own_loans")
        ELSE IF q.status \notin {NoStatus, "overdue", "active", "returned"}
        THEN Refused(400, "invalid_status")
        ELSE Listing(ls, byBook, q.page, q.limit)

\* GET /loans/my-loans
get_my_loans(db, caller, q) ==
    Listing(db.loans, {i \in DOMAIN db.loans : db.loans[i].user_id = caller},
            q.page, q.limit)

NewLoan(book_id, user_id, t) ==
    [book_id |-> book_id, user_id |-> user_id, loan_date |-> t,
     due_date |-> t + LOAN_DURATION_DAYS, return_date |-> NULL,
     status |-> "active"]

\* variant: the copy is taken off the shelf before the borrower is checked
create_loan_decrement_first(db, caller, book_id, t) ==
    LET b == check_book_available(db.books, book_id)
        u == check_user_can_borrow(db.loans, caller, t)
        id == db.nextId.loan
        taken == [db EXCEPT !.books[book_id].available = @ - 1]
    IN  IF b = "not_found" THEN Answer(db, 404, b)
        ELSE IF b # "ok" THEN Answer(db, 400, b)
        ELSE IF u # "ok" THEN Answer(taken, 400, u)
        ELSE Answer([taken EXCEPT
                        !.loans = Insert(@, id, NewLoan(book_id, caller, t)),
                        !.nextId.loan = id + 1],
                    201, "created")

create_loan(db, caller, book_id, t) ==
    LET b == check_book_available(db.books, book_id)
        u == check_user_can_borrow(db.loans, caller, t)
        id == db.nextId.loan
    IN  IF b = "not_found" THEN Answer(db, 404, b)
        ELSE IF b # "ok" THEN Answer(db, 400, b)
        ELSE IF u # "ok" THEN Answer(db, 400, u)
        ELSE Answer([db EXCEPT
                        !.books[book_id].available = @ - 1,
                        !.loans = Insert(@, id, NewLoan(book_id, caller, t)),
                        !.nextId.loan = id + 1],
                    201, "created")

\* variant: the stored status of the loan is not looked at
return_loan_any_status(db, caller, loan_id, t) ==
    IF loan_id \notin DOMAIN db.loans THEN Answer(db, 404, "not_found")
    ELSE IF db.users[caller].role = "member"
            /\ db.loans[loan_id].user_id # caller
         THEN Answer(db, 403, "not_own_loan")
    ELSE IF db.loans[loan_id].book_id \notin DOMAIN db.books
         THEN Answer(db, 500, "no_book")
    ELSE Answer([db EXCEPT !.loans[loan_id].status = "returned",
                           !.loans[loan_id].return_date = t,
                           !.books[db.loans[loan_id].book_id].available = @ + 1],
                200, "returned")

\* variant: the borrower of the loan is not looked at
return_loan_any_caller(db, caller, loan_id, t) ==
    IF loan_id \notin DOMAIN db.loans THEN Answer(db, 404, "not_found")
    ELSE IF db.loans[loan_id].status # "active"
         THEN Answer(db, 400, "not_active")
    ELSE IF db.loans[loan_id].book_id \notin DOMAIN db.books
         THEN Answer(db, 500, "no_book")
    ELSE Answer([db EXCEPT !.loans[loan_id].status = "returned",
                           !.loans[loan_id].return_date = t,
                           !.books[db.loans[loan_id].book_id].available = @ + 1],
                200, "returned")

\* variant: the copy is not put back on the shelf
return_loan_no_increment(db, caller, loan_id, t) ==
    IF loan_id \notin DOMAIN db.loans THEN Answer(db, 404, "not_found")
    ELSE IF db.loans[loan_id].status # "active"
         THEN Answer(db, 400, "not_active")
    ELSE IF db.users[caller].role = "member"
            /\ db.loans[loan_id].user_id # caller
         THEN Answer(db, 403, "not_own_loan")
    ELSE Answer([db EXCEPT !.loans[loan_id].status = "returned",
                           !.loans[loan_id].return_date = t],
                200, "returned")

return_loan(db, caller, loan_id, t) ==
    IF loan_id \notin DOMAIN db.loans THEN Answer(db, 404, "not_found")
    ELSE IF db.loans[loan_id].status # "active"
         THEN Answer(db, 400, "not_active")
    ELSE IF db.users[caller].role = "member"
            /\ db.loans[loan_id].user_id # caller
         THEN Answer(db, 403, "not_own_loan")
    ELSE IF db.loans[loan_id].book_id \notin DOMAIN db.books
         THEN Answer(db, 500, "no_book")
    ELSE Answer([db EXCEPT !.loans[loan_id].status = "returned",
                           !.loans[loan_id].return_date = t,
                           !.books[db.loans[loan_id].book_id].available = @ + 1],
                200, "returned")

(***************************************************************************)
(* Books: backend/routers/books.py                                         *)
(***************************************************************************)
require_admin_or_librarian(us, caller) ==
    us[caller].role \in {"admin", "librarian"}

\* variant: the librarian passes for an admin
require_admin_lenient(us, caller) == us[caller].role \in {"admin", "librarian"}

require_admin(us, caller) == us[caller].role = "admin"

Max(a, b) == IF a >= b THEN a ELSE b

BooksWithIsbn(bs, isbn) == {i \in DOMAIN bs : bs[i].isbn = isbn}

\* the request body parsed as a BookCreate: the fields the schema declares
\* are kept, any other field of the body is dropped
BookCreate(body) ==
    [isbn |-> body.isbn, category_id |-> body.category_id,
     quantity |-> body.quantity]

\* variant: the new book starts with no copy on the shelf
create_book_empty_shelf(db, caller, data) ==
    LET id == db.nextId.book
    IN  IF ~require_admin_or_librarian(db.users, caller)
        THEN Answer(db, 403, "forbidden")
        ELSE IF BooksWithIsbn(db.books, data.isbn) # {}
        THEN Answer(db, 400, "isbn_exists")
        ELSE IF data.category_id \notin DOMAIN db.categories
        THEN Answer(db, 400, "category_not_found")
        ELSE Answer([db EXCEPT
                        !.books = Insert(@, id,
                            [isbn |-> data.isbn,
                             category_id |-> data.category_id,
                             quantity |-> data.quantity,
                             available |-> 0]),
                        !.nextId.book = id + 1],
                    201, "created")

create_book(db, caller, data) ==
    LET id == db.nextId.book
    IN  IF ~require_admin_or_librarian(db.users, caller)
        THEN Answer(db, 403, "forbidden")
        ELSE IF BooksWithIsbn(db.books, data.isbn) # {}
        THEN Answer(db, 400, "isbn_exists")
        ELSE IF data.category_id \notin DOMAIN db.categories
        THEN Answer(db, 400, "category_not_found")
        ELSE Answer([db EXCEPT
                        !.books = Insert(@, id,
                            [isbn |-> data.isbn,
                             category_id |-> data.category_id,
                             quantity |-> data.quantity,
                             available |-> data.quantity]),
                        !.nextId.book = id + 1],
                    201, "created")

\* the quantity branch of update_book: the book row after it
AdjustQuantity(book, quantity) ==
    IF quantity # NULL /\ quantity # book.quantity
    THEN [book EXCEPT
            !.available = Max(0, book.available + (quantity - book.quantity)),
            !.quantity = quantity]
    ELSE book

update_book(db, caller, book_id, data) ==
    LET book == db.books[book_id]
        newIsbn == data.isbn # NULL /\ data.isbn # book.isbn
        newCat == /\ data.category_id # NULL
                  /\ data.category_id # 0
                  /\ data.category_id # book.category_id
        b1 == IF newIsbn THEN [book EXCEPT !.isbn = data.isbn] ELSE book
        b2 == IF newCat THEN [b1 EXCEPT !.category_id = data.category_id]
              ELSE b1
    IN  IF ~require_admin_or_librarian(db.users, caller)
        THEN Answer(db, 403, "forbidden")
        ELSE IF book_id \notin DOMAIN db.books
        THEN Answer(db, 404, "not_found")
        ELSE IF newIsbn /\ BooksWithIsbn(db.books, data.isbn) # {}
        THEN Answer(db, 400, "isbn_exists")
        ELSE IF newCat /\ data.category_id \notin DOMAIN db.categories
        THEN Answer(db, 400, "category_not_found")
        ELSE Answer([db EXCEPT
                        !.books[book_id] = AdjustQuantity(b2, data.quantity)],
                    200, "updated")

ActiveLoansOfBook(ls, book_id) ==
    {i \in DOMAIN ls : ls[i].book_id = book_id /\ ls[i].status = "active"}

LoansOfBook(ls, book_id) == {i \in DOMAIN ls : ls[i].book_id = book_id}

\* db.delete(book) also deletes the book's loans (cascade="all, delete-orphan")
\* variant: the active loans of the book are not counted
delete_book_unchecked(db, caller, book_id) ==
    IF ~require_admin(db.users, caller) THEN Answer(db, 403, "forbidden")
    ELSE IF book_id \notin DOMAIN db.books THEN Answer(db, 404, "not_found")
    ELSE Answer([db EXCEPT
                    !.books = Remove(@, {book_id}),
                    !.loans = Remove(@, LoansOfBook(db.loans, book_id))],
                204, "deleted")

\* variant: the loans of the deleted book stay in storage
delete_book_keeps_loans(db, caller, book_id) ==
    IF ~require_admin(db.users, caller) THEN Answer(db, 403, "forbidden")
    ELSE IF book_id \notin DOMAIN db.books THEN Answer(db, 404, "not_found")
    ELSE IF ActiveLoansOfBook(db.loans, book_id) # {}
    THEN Answer(db, 400, "active_loans")
    ELSE Answer([db EXCEPT !.books = Remove(@, {book_id})], 204, "deleted")

delete_book(db, caller, book_id) ==
    IF ~require_admin(db.users, caller) THEN Answer(db, 403, "forbidden")
    ELSE IF book_id \notin DOMAIN db.books THEN Answer(db, 404, "not_found")
    ELSE IF ActiveLoansOfBook(db.loans, book_id) # {}
    THEN Answer(db, 400, "active_loans")
    ELSE Answer([db EXCEPT
                    !.books = Remove(@, {book_id}),
                    !.loans = Remove(@, LoansOfBook(db.loans, book_id))],
                204, "deleted")

(***************************************************************************)
(* Categories: backend/routers/categories.py                               *)
(***************************************************************************)
\* the id the database gives the next row of a table
NextKey(table) ==
    IF DOMAIN table = {} THEN 1
    ELSE 1 + CHOOSE m \in DOMAIN table : \A i \in DOMAIN table : i <= m

\* the name a CategoryUpdate carries when it carries none
NoName == ""

CategoriesNamed(cs, name) == {i \in DOMAIN cs : cs[i].name = name}

BooksOfCategory(bs, category_id) ==
    {i \in DOMAIN bs : bs[i].category_id = category_id}

create_category(db, caller, data) ==
    IF ~require_admin_or_librarian(db.users, caller)
    THEN Answer(db, 403, "forbidden")
    ELSE IF CategoriesNamed(db.categories, data.name) # {}
    THEN Answer(db, 400, "name_exists")
    ELSE Answer([db EXCEPT
                    !.categories = Insert(@, NextKey(db.categories),
                                          [name |-> data.name])],
                201, "created")

update_category(db, caller, category_id, data) ==
    LET newName == /\ data.name # NoName
                   /\ data.name # db.categories[category_id].name
    IN  IF ~require_admin_or_librarian(db.users, caller)
        THEN Answer(db, 403, "forbidden")
        ELSE IF category_id \notin DOMAIN db.categories
        THEN Answer(db, 404, "not_found")
        ELSE IF newName /\ CategoriesNamed(db.categories, data.name) # {}
        THEN Answer(db, 400, "name_exists")
        ELSE Answer([db EXCEPT
                        !.categories[category_id].name =
                            IF newName THEN data.name ELSE @],
                    200, "updated")

delete_category(db, caller, category_id) ==
    IF ~require_admin(db.users, caller) THEN Answer(db, 403, "forbidden")
    ELSE IF category_id \notin DOMAIN db.categories
    THEN Answer(db, 404, "not_found")
    ELSE IF BooksOfCategory(db.books, category_id) # {}
    THEN Answer(db, 400, "linked_books")
    ELSE Answer([db EXCEPT !.categories = Remove(@, {category_id})],
                204, "deleted")

(***************************************************************************)
(* Accounts: backend/routers/auth.py, backend/routers/users.py             *)
(***************************************************************************)
UsersNamed(us, username) == {i \in DOMAIN us : us[i].username = username}

UsersWithEmail(us, email) == {i \in DOMAIN us : us[i].email = email}

\* variant: only the username is looked up
register_username_only(db, data) ==
    IF UsersNamed(db.users, data.username) # {}
    THEN Answer(db, 400, "username_exists")
    ELSE Answer([db EXCEPT
                    !.users = Insert(@, NextKey(db.users),
                                     [username |-> data.username,
                                      email |-> data.email,
                                      role |-> "member"])],
                201, "created")

register(db, data) ==
    IF UsersNamed(db.users, data.username) # {}
    THEN Answer(db, 400, "username_exists")
    ELSE IF UsersWithEmail(db.users, data.email) # {}
    THEN Answer(db, 400, "email_exists")
    ELSE Answer([db EXCEPT
                    !.users = Insert(@, NextKey(db.users),
                                     [username |-> data.username,
                                      email |-> data.email,
                                      role |-> "member"])],
                201, "created")

\* variant: the role of the caller is not looked at
update_user_role_unguarded(db, caller, user_id, role) ==
    IF user_id \notin DOMAIN db.users THEN Answer(db, 404, "not_found")
    ELSE Answer([db EXCEPT !.users[user_id].role = role], 200, "updated")

\* variant: an admin cannot change their own role
update_user_role_not_self(db, caller, user_id, role) ==
    IF ~require_admin(db.users, caller) THEN Answer(db, 403, "forbidden")
    ELSE IF user_id \notin DOMAIN db.users THEN Answer(db, 404, "not_found")
    ELSE IF user_id = caller THEN Answer(db, 400, "own_role")
    ELSE Answer([db EXCEPT !.users[user_id].role = role], 200, "updated")

update_user_role(db, caller, user_id, role) ==
    IF ~require_admin(db.users, caller) THEN Answer(db, 403, "forbidden")
    ELSE IF user_id \notin DOMAIN db.users THEN Answer(db, 404, "not_found")
    ELSE Answer([db EXCEPT !.users[user_id].role = role], 200, "updated")

\* variant: a user with three active loans can still borrow
UserStats_le(active_loans, total_loans, overdue_loans) ==
    [code |-> 200, detail |-> "stats", active_loans |-> active_loans,
     total_loans |-> total_loans, overdue_loans |-> overdue_loans,
     can_borrow |-> (overdue_loans = 0 /\ active_loans <= 3)]

\* the body of a UserStatsResponse
UserStats(active_loans, total_loans, overdue_loans) ==
    [code |-> 200, detail |-> "stats", active_loans |-> active_loans,
     total_loans |-> total_loans, overdue_loans |-> overdue_loans,
     can_borrow |-> (overdue_loans = 0 /\ active_loans < 3)]

\* variant: a loan counts as overdue on its due date already
get_user_stats_le(db, caller, user_id, t) ==
    LET ls == db.loans
        own == {i \in DOMAIN ls : ls[i].user_id = user_id}
    IN  IF db.users[caller].role = "member" /\ caller # user_id
        THEN [code |-> 403, detail |-> "not_own_stats"]
        ELSE IF user_id \notin DOMAIN db.users
        THEN [code |-> 404, detail |-> "not_found"]
        ELSE UserStats(
                Cardinality({i \in own : ls[i].status = "active"}),
                Cardinality(own),
                Cardinality({i \in own : /\ ls[i].status = "active"
                                         /\ ls[i].due_date <= t}))

\* GET /users/{user_id}/stats
get_user_stats(db, caller, user_id, t) ==
    LET ls == db.loans
        own == {i \in DOMAIN ls : ls[i].user_id = user_id}
    IN  IF db.users[caller].role = "member" /\ caller # user_id
        THEN [code |-> 403, detail |-> "not_own_stats"]
        ELSE IF user_id \notin DOMAIN db.users
        THEN [code |-> 404, detail |-> "not_found"]
        ELSE UserStats(
                Cardinality({i \in own : ls[i].status = "active"}),
                Cardinality(own),
                Cardinality({i \in own : /\ ls[i].status = "active"
                                         /\ ls[i].due_date < t}))

(***************************************************************************)
(* The requests the actions draw.                                          *)
(***************************************************************************)
Request(op, caller, target, r) ==
    [op |-> op, caller |-> caller, target |-> target,
     code |-> r.code, detail |-> r.detail]

NoRequest ==
    [op |-> "none", caller |-> 0, target |-> 0, code |-> 0, detail |-> "none"]

Store(db) ==
    /\ users' = db.users
    /\ categories' = db.categories
    /\ books' = db.books
    /\ loans' = db.loans
    /\ nextId' = db.nextId

\* two titles of the seed, every copy on the shelf
seed_books ==
    (1 :> [isbn |-> 101, category_id |-> 1, quantity |-> 2, available |-> 2])
 @@ (2 :> [isbn |-> 102, category_id |-> 2, quantity |-> 2, available |-> 2])

Init ==
    /\ users = seed_users
    /\ categories = seed_categories
    /\ books = seed_books
    /\ loans = Empty
    /\ nextId = [book |-> 3, loan |-> 1]
    /\ now = 0
    /\ last = NoRequest
    /\ sess = Empty
    /\ base = Empty

\* the catalogue before any book is entered
InitCatalogue ==
    /\ users = seed_users
    /\ categories = seed_categories
    /\ books = Empty
    /\ loans = Empty
    /\ nextId = [book |-> 1, loan |-> 1]
    /\ now = 0
    /\ last = NoRequest
    /\ sess = Empty
    /\ base = Empty

(***************************************************************************)
(* One action per request; a handler runs in one step.                     *)
(***************************************************************************)
CreateBook(caller, data) ==
    LET r == create_book(DB, caller, BookCreate(data))
    IN  /\ r.code = 201 => nextId.book <= MaxBooks
        /\ Store(r.db)
        /\ last' = Request("create_book", caller, nextId.book, r)
        /\ UNCHANGED <<now, sess, base>>

UpdateBook(caller, book_id, data) ==
    LET r == update_book(DB, caller, book_id, data)
    IN  /\ Store(r.db)
        /\ last' = Request("update_book", caller, book_id, r)
        /\ UNCHANGED <<now, sess, base>>

DeleteBook(caller, book_id) ==
    LET r == delete_book(DB, caller, book_id)
    IN  /\ Store(r.db)
        /\ last' = Request("delete_book", caller, book_id, r)
        /\ UNCHANGED <<now, sess, base>>

CreateCategory(caller, data) ==
    LET r == create_category(DB, caller, data)
    IN  /\ r.code = 201 => NextKey(categories) <= MaxCategories
        /\ Store(r.db)
        /\ last' = Request("create_category", caller, NextKey(categories), r)
        /\ UNCHANGED <<now, sess, base>>

UpdateCategory(caller, category_id, data) ==
    LET r == update_category(DB, caller, category_id, data)
    IN  /\ Store(r.db)
        /\ last' = Request("update_category", caller, category_id, r)
        /\ UNCHANGED <<now, sess, base>>

DeleteCategory(caller, category_id) ==
    LET r == delete_category(DB, caller, category_id)
    IN  /\ Store(r.db)
        /\ last' = Request("delete_category", caller, category_id, r)
        /\ UNCHANGED <<now, sess, base>>

\* register is open to everyone: no caller
Register(data) ==
    LET r == register(DB, data)
    IN  /\ r.code = 201 => NextKey(users) <= MaxUsers
        /\ Store(r.db)
        /\ last' = Request("register", 0, NextKey(users), r)
        /\ UNCHANGED <<now, sess, base>>

UpdateUserRole(caller, user_id, role) ==
    LET r == update_user_role(DB, caller, user_id, role)
    IN  /\ Store(r.db)
        /\ last' = Request("update_user_role", caller, user_id, r)
        /\ UNCHANGED <<now, sess, base>>

\* the loans table holds the rows with ids up to limit
CreateLoanWithin(limit, caller, book_id) ==
    LET r == create_loan(DB, caller, book_id, now)
    IN  /\ r.code = 201 => nextId.loan <= limit
        /\ Store(r.db)
        /\ last' = Request("create_loan", caller, book_id, r)
        /\ UNCHANGED <<now, sess, base>>

CreateLoan(caller, book_id) == CreateLoanWithin(MaxLoans, caller, book_id)

ReturnLoan(caller, loan_id) ==
    LET r == return_loan(DB, caller, loan_id, now)
    IN  /\ Store(r.db)
        /\ last' = Request("return_loan", caller, loan_id, r)
        /\ UNCHANGED <<now, sess, base>>

\* the listings read the store and write nothing
ListLoans(caller, q) ==
    LET r == list_loans_request(DB, caller, q, now)
    IN  /\ last' = [op |-> "list_loans", caller |-> caller,
                    target |-> q.user_id, code |-> r.code,
                    detail |-> r.detail]
        /\ UNCHANGED <<users, categories, books, loans, nextId, now, sess,
                       base>>

GetMyLoans(caller, q) ==
    LET r == get_my_loans(DB, caller, q)
    IN  /\ last' = [op |-> "get_my_loans", caller |-> caller,
                    target |-> caller, code |-> r.code, detail |-> r.detail]
        /\ UNCHANGED <<users, categories, books, loans, nextId, now, sess,
                       base>>

GetUserStats(caller, user_id) ==
    LET r == get_user_stats(DB, caller, user_id, now)
    IN  /\ last' = [op |-> "get_user_stats", caller |-> caller,
                    target |-> user_id, code |-> r.code, detail |-> r.detail]
        /\ UNCHANGED <<users, categories, books, loans, nextId, now, sess,
                       base>>

\* the instants at which a loan has just become overdue
OverdueInstants == {loans[i].due_date + 1 : i \in DOMAIN loans}

Tick(t) ==
    /\ t > now
    /\ t <= MaxNow
    /\ now' = t
    /\ last' = [NoRequest EXCEPT !.op = "tick"]
    /\ UNCHANGED <<users, categories, books, loans, nextId, sess, base>>

(***************************************************************************)
(* Spec: the lending desk.  Two members borrow and return the copies of    *)
(* the two seeded titles, the librarian takes returns, the clock runs.     *)
(***************************************************************************)
Admin == 1
Librarian == 2
Members == {3, 4}
SeededBooks == DOMAIN seed_books
LoanIds == 1..MaxLoans

Next ==
    \/ \E c \in Members, b \in SeededBooks \cup {3} : CreateLoan(c, b)
    \/ \E c \in Members \cup {Librarian}, l \in LoanIds : ReturnLoan(c, l)
    \/ \E t \in OverdueInstants : Tick(t)

Spec == Init /\ [][Next]_vars

(***************************************************************************)
(* SpecCap: the lending desk on one day, with room for a fourth loan.      *)
(***************************************************************************)
NextCap ==
    \/ \E c \in Members, b \in SeededBooks \cup {3} :
            CreateLoanWithin(MaxCapLoans, c, b)
    \/ \E c \in Members \cup {Librarian}, l \in 1..MaxCapLoans :
            ReturnLoan(c, l)

SpecCap == Init /\ [][NextCap]_vars

(***************************************************************************)
(* SpecReturn: the returns desk.  The members borrow the seeded titles;    *)
(* members, the librarian and the admin bring loans back.                  *)
(***************************************************************************)
Staff == {Librarian, Admin}

NextReturn ==
    \/ \E c \in Members, b \in SeededBooks : CreateLoan(c, b)
    \/ \E c \in Members \cup Staff, l \in LoanIds : ReturnLoan(c, l)

SpecReturn == Init /\ [][NextReturn]_vars

(***************************************************************************)
(* SpecClock: one member at the lending desk while time passes.  The clock *)
(* stops at the due date of a loan and at the instant after it.  The       *)
(* member and the librarian read the members' statistics.                  *)
(***************************************************************************)
DueInstants ==
    {loans[i].due_date : i \in DOMAIN loans} \cup OverdueInstants

Joao == 3

NextClock ==
    \/ \E b \in SeededBooks : CreateLoan(Joao, b)
    \/ \E l \in LoanIds : ReturnLoan(Joao, l)
    \/ \E t \in DueInstants : Tick(t)
    \/ \E c \in {Joao, Librarian}, u \in Members : GetUserStats(c, u)

SpecClock == Init /\ [][NextClock]_vars

(***************************************************************************)
(* SpecSeed: the lending desk on the data seed.py leaves: the three titles *)
(* its loans are on, and the three loans, at the instant of the seed.      *)
(***************************************************************************)
\* Dune, Fundacao, JavaScript: The Good Parts
seed_books_on_loan ==
    (2 :> [isbn |-> 103, category_id |-> 1, quantity |-> 3, available |-> 2])
 @@ (3 :> [isbn |-> 104, category_id |-> 1, quantity |-> 2, available |-> 1])
 @@ (7 :> [isbn |-> 105, category_id |-> 3, quantity |-> 1, available |-> 0])

\* the loans, on a clock that reads 30 when the seed runs
seed_loans ==
    (1 :> [book_id |-> 2, user_id |-> 3, loan_date |-> 30 - 7,
           due_date |-> 30 + 7, return_date |-> NULL, status |-> "active"])
 @@ (2 :> [book_id |-> 3, user_id |-> 3, loan_date |-> 30 - 19,
           due_date |-> 30 - 5, return_date |-> NULL, status |-> "overdue"])
 @@ (3 :> [book_id |-> 7, user_id |-> 4, loan_date |-> 30 - 30,
           due_date |-> 30 - 16, return_date |-> 30 - 20,
           status |-> "returned"])

InitSeed ==
    /\ users = seed_users
    /\ categories = Insert(seed_categories, 3, [name |-> "Tecnico/Programacao"])
    /\ books = seed_books_on_loan
    /\ loans = seed_loans
    /\ nextId = [book |-> 16, loan |-> 4]
    /\ now = 30
    /\ last = NoRequest
    /\ sess = Empty
    /\ base = Empty

SeedLoanIds == 1..(Cardinality(DOMAIN seed_loans) + MaxLoans)

NextSeed ==
    \/ \E c \in Members, b \in DOMAIN seed_books_on_loan :
            CreateLoanWithin(Cardinality(DOMAIN seed_loans) + MaxLoans, c, b)
    \/ \E c \in Members \cup {Librarian}, l \in SeedLoanIds :
            ReturnLoan(c, l)

SpecSeed == InitSeed /\ [][NextSeed]_vars

(***************************************************************************)
(* SpecSeedShelf: the same data while titles leave the catalogue.  The     *)
(* members borrow, joao and the librarian bring loans back, the admin      *)
(* deletes titles.                                                         *)
(***************************************************************************)
SeedLentIds == 1..(Cardinality(DOMAIN seed_loans) + MaxLent)

NextSeedShelf ==
    \/ \E c \in Members, b \in DOMAIN seed_books_on_loan :
            CreateLoanWithin(Cardinality(DOMAIN seed_loans) + MaxLent, c, b)
    \/ \E c \in {Joao, Librarian}, l \in SeedLentIds : ReturnLoan(c, l)
    \/ \E b \in DOMAIN seed_books_on_loan : DeleteBook(Admin, b)

SpecSeedShelf == InitSeed /\ [][NextSeedShelf]_vars

(***************************************************************************)
(* SpecStock: the catalogue.  The librarian enters books and changes their *)
(* quantity, the admin deletes them, one member borrows and returns.       *)
(***************************************************************************)
BookIds == 1..MaxBooks
Quantities == 0..MaxQty
BookData == [isbn : Isbns, category_id : {1}, quantity : Quantities]
QuantityUpdate == [isbn : {NULL}, category_id : {NULL}, quantity : Quantities]

NextStock ==
    \/ \E d \in BookData : CreateBook(Librarian, d)
    \/ \E b \in BookIds, d \in QuantityUpdate : UpdateBook(Librarian, b, d)
    \/ \E b \in BookIds : DeleteBook(Admin, b)
    \/ \E b \in BookIds : CreateLoan(3, b)
    \/ \E l \in LoanIds : ReturnLoan(3, l)

SpecStock == InitCatalogue /\ [][NextStock]_vars

(***************************************************************************)
(* SpecCatalogue: the catalogue and its keepers.  The admin, the librarian *)
(* and a member send the requests that enter, change and delete books and  *)
(* categories.                                                             *)
(***************************************************************************)
Callers == {Admin, Librarian, Joao}

CategoryIds == 1..MaxCategories

CategoryNames == {"Romance", "Historia"}

NewBooks == [isbn : Isbns, category_id : {1}, quantity : {1}]

Restock == [isbn : {NULL}, category_id : {NULL}, quantity : {2}]

Renames == [name : {"Historia"}]

\* the bodies of POST /books, with and without an available field
SentBooks ==
    [isbn : Isbns, category_id : {1}, quantity : {1}, available : {NULL, 0}]

NextCatalogue ==
    \/ \E c \in Callers, d \in SentBooks : CreateBook(c, d)
    \/ \E c \in Callers, b \in BookIds, d \in Restock : UpdateBook(c, b, d)
    \/ \E c \in Callers, b \in BookIds : DeleteBook(c, b)
    \/ \E c \in Callers, n \in CategoryNames :
            CreateCategory(c, [name |-> n])
    \/ \E c \in Callers, k \in CategoryIds, d \in Renames :
            UpdateCategory(c, k, d)
    \/ \E c \in Callers, k \in CategoryIds : DeleteCategory(c, k)

SpecCatalogue == InitCatalogue /\ [][NextCatalogue]_vars

(***************************************************************************)
(* SpecShelf: books and categories leave the catalogue.  The librarian     *)
(* enters books, a member borrows and returns them, the admin deletes      *)
(* books and categories.                                                   *)
(***************************************************************************)
NextShelf ==
    \/ \E d \in NewBooks : CreateBook(Librarian, d)
    \/ \E b \in BookIds : DeleteBook(Admin, b)
    \/ \E k \in CategoryIds : DeleteCategory(Admin, k)
    \/ \E b \in BookIds : CreateLoanWithin(MaxLent, Joao, b)
    \/ \E l \in 1..MaxLent : ReturnLoan(Joao, l)

SpecShelf == InitCatalogue /\ [][NextShelf]_vars

(***************************************************************************)
(* SpecUnique: the requests that write a unique field.  Visitors register, *)
(* the librarian enters books and categories and changes their ISBN and    *)
(* name.                                                                   *)
(***************************************************************************)
Registrations ==
    [username : {"joao", "ana", "bia"},
     email : {"joao@email.com", "ana@email.com"}]

IsbnUpdate ==
    [isbn : Isbns \cup {103}, category_id : {NULL}, quantity : {NULL}]

NextUnique ==
    \/ \E d \in Registrations : Register(d)
    \/ \E d \in NewBooks : CreateBook(Librarian, d)
    \/ \E b \in BookIds, d \in IsbnUpdate : UpdateBook(Librarian, b, d)
    \/ \E n \in CategoryNames : CreateCategory(Librarian, [name |-> n])
    \/ \E k \in CategoryIds, n \in CategoryNames :
            UpdateCategory(Librarian, k, [name |-> n])

SpecUnique == InitCatalogue /\ [][NextUnique]_vars

(***************************************************************************)
(* SpecAccounts: the accounts.  Visitors register; every user asks for a   *)
(* change of a user's role.                                                *)
(***************************************************************************)
UserIds == 1..MaxUsers

NextAccounts ==
    \/ \E d \in Registrations : Register(d)
    \/ \E c \in DOMAIN users, u \in UserIds, r \in UserRole :
            UpdateUserRole(c, u, r)

SpecAccounts == Init /\ [][NextAccounts]_vars

(***************************************************************************)
(* SpecListing: the loans are listed.  The members borrow and return while *)
(* the clock runs; one member and the librarian ask for listings.          *)
(***************************************************************************)
StatusFilters == {NoStatus, "active", "returned", "overdue", "lost"}

Pages == {1, 2}

Limits == {1, 2}

Queries ==
    [status : StatusFilters, user_id : {NULL} \cup Members,
     book_id : {NULL} \cup SeededBooks, page : Pages, limit : Limits]

\* the requests for the first row of a listing of all books
Asked ==
    {q \in Queries : /\ q.status \in {NoStatus, "lost"}
                     /\ q.book_id = NULL /\ q.page = 1 /\ q.limit = 1}

\* get_my_loans takes the page and the limit only
AskedOwn == {q \in Asked : q.status = NoStatus /\ q.user_id = NULL}

NextListing ==
    \/ \E c \in Members, b \in SeededBooks : CreateLoanWithin(MaxLent, c, b)
    \/ \E c \in Members, l \in 1..MaxLent : ReturnLoan(c, l)
    \/ \E t \in OverdueInstants : Tick(t)
    \/ \E c \in {Joao, Librarian}, q \in Asked : ListLoans(c, q)
    \/ \E c \in {Joao, Librarian}, q \in AskedOwn : GetMyLoans(c, q)

SpecListing == Init /\ [][NextListing]_vars

(***************************************************************************)
(* Concurrent requests.  Every request has its own SQLAlchemy session      *)
(* (get_db): the rows a handler queries are copied into the session when   *)
(* the query runs, the handler computes on the copies, and db.commit()     *)
(* writes the changed columns back by primary key in one transaction.      *)
(* Neither SQLite nor PostgreSQL at its default isolation level holds a    *)
(* lock between a request's SELECT and its commit.                         *)
(***************************************************************************)
Sessions == {1, 2}

NoSnap == [book_id |-> NULL, quantity |-> NULL, available |-> NULL]

Idle ==
    [op |-> "none", caller |-> 0, target |-> 0, quantity |-> NULL,
     pc |-> "idle", snap |-> NoSnap, code |-> 0]

SnapBook(bs, book_id) ==
    [book_id |-> book_id, quantity |-> bs[book_id].quantity,
     available |-> bs[book_id].available]

Done(s, code) ==
    sess' = [sess EXCEPT ![s].pc = "done", ![s].code = code, ![s].snap = NoSnap]

Goto(s, pc, snap) == sess' = [sess EXCEPT ![s].pc = pc, ![s].snap = snap]

Untouched == UNCHANGED <<users, categories, books, loans, nextId>>

\* the request reaches its handler
Begin(s, req) ==
    /\ sess[s].pc = "idle"
    /\ sess' = [sess EXCEPT ![s] = [Idle EXCEPT !.op = req.op,
                                               !.caller = req.caller,
                                               !.target = req.target,
                                               !.quantity = req.quantity,
                                               !.pc = "read"]]
    /\ Untouched
    /\ UNCHANGED <<now, last, base>>

\* create_loan: check_book_available queries the book
CreateLoanReadBook(s) ==
    LET b == check_book_available(books, sess[s].target)
    IN  /\ sess[s].op = "create_loan" /\ sess[s].pc = "read"
        /\ IF b = "not_found" THEN Done(s, 404)
           ELSE IF b # "ok" THEN Done(s, 400)
           ELSE Goto(s, "check_user", SnapBook(books, sess[s].target))
        /\ Untouched
        /\ UNCHANGED <<now, last, base>>

\* create_loan: check_user_can_borrow queries the caller's loans
CreateLoanCheckUser(s) ==
    /\ sess[s].op = "create_loan" /\ sess[s].pc = "check_user"
    /\ IF check_user_can_borrow(loans, sess[s].caller, now) # "ok"
       THEN Done(s, 400)
       ELSE Goto(s, "commit", sess[s].snap)
    /\ Untouched
    /\ UNCHANGED <<now, last, base>>

\* create_loan: book.available -= 1 on the copy, db.add, db.commit
CreateLoanCommit(s) ==
    LET b == sess[s].target
        id == nextId.loan
    IN  /\ sess[s].op = "create_loan" /\ sess[s].pc = "commit"
        /\ IF b \notin DOMAIN books
           THEN Done(s, 500) /\ Untouched
           ELSE /\ books' = [books EXCEPT
                                ![b].available = sess[s].snap.available - 1]
                /\ loans' = Insert(loans, id, NewLoan(b, sess[s].caller, now))
                /\ nextId' = [nextId EXCEPT !.loan = id + 1]
                /\ Done(s, 201)
                /\ UNCHANGED <<users, categories>>
        /\ UNCHANGED <<now, last, base>>

\* return_loan: one query loads the loan with its book and user
ReturnLoanRead(s) ==
    LET l == sess[s].target
    IN  /\ sess[s].op = "return_loan" /\ sess[s].pc = "read"
        /\ IF l \notin DOMAIN loans THEN Done(s, 404)
           ELSE IF loans[l].status # "active" THEN Done(s, 400)
           ELSE IF users[sess[s].caller].role = "member"
                   /\ loans[l].user_id # sess[s].caller
                THEN Done(s, 403)
           ELSE IF loans[l].book_id \notin DOMAIN books THEN Done(s, 500)
           ELSE Goto(s, "commit", SnapBook(books, loans[l].book_id))
        /\ Untouched
        /\ UNCHANGED <<now, last, base>>

\* variant: the commit adds 1 to the available the database holds
ReturnLoanCommit_adds_in_database(s) ==
    LET l == sess[s].target
        b == sess[s].snap.book_id
    IN  /\ sess[s].op = "return_loan" /\ sess[s].pc = "commit"
        /\ IF l \notin DOMAIN loans \/ b \notin DOMAIN books
           THEN Done(s, 500) /\ Untouched
           ELSE /\ loans' = [loans EXCEPT ![l].status = "returned",
                                          ![l].return_date = now]
                /\ books' = [books EXCEPT ![b].available = @ + 1]
                /\ Done(s, 200)
                /\ UNCHANGED <<users, categories, nextId>>
        /\ UNCHANGED <<now, last, base>>

\* return_loan: status, return_date and book.available + 1 written back
ReturnLoanCommit(s) ==
    LET l == sess[s].target
        b == sess[s].snap.book_id
    IN  /\ sess[s].op = "return_loan" /\ sess[s].pc = "commit"
        /\ IF l \notin DOMAIN loans \/ b \notin DOMAIN books
           THEN Done(s, 500) /\ Untouched
           ELSE /\ loans' = [loans EXCEPT ![l].status = "returned",
                                          ![l].return_date = now]
                /\ books' = [books EXCEPT
                                ![b].available = sess[s].snap.available + 1]
                /\ Done(s, 200)
                /\ UNCHANGED <<users, categories, nextId>>
        /\ UNCHANGED <<now, last, base>>

\* update_book carrying a quantity only: the book is queried
UpdateBookRead(s) ==
    LET b == sess[s].target
    IN  /\ sess[s].op = "update_book" /\ sess[s].pc = "read"
        /\ IF ~require_admin_or_librarian(users, sess[s].caller)
           THEN Done(s, 403)
           ELSE IF b \notin DOMAIN books THEN Done(s, 404)
           ELSE Goto(s, "commit", SnapBook(books, b))
        /\ Untouched
        /\ UNCHANGED <<now, last, base>>

\* update_book: the columns whose value changed on the copy are written back
UpdateBookCommit(s) ==
    LET b == sess[s].target
        old == sess[s].snap
        new == AdjustQuantity(old, sess[s].quantity)
    IN  /\ sess[s].op = "update_book" /\ sess[s].pc = "commit"
        /\ IF new = old THEN Done(s, 200) /\ Untouched
           ELSE IF b \notin DOMAIN books THEN Done(s, 500) /\ Untouched
           ELSE /\ books' = [books EXCEPT
                                ![b].quantity = new.quantity,
                                ![b].available =
                                    IF new.available # old.available
                                    THEN new.available ELSE @]
                /\ Done(s, 200)
                /\ UNCHANGED <<users, categories, loans, nextId>>
        /\ UNCHANGED <<now, last, base>>

\* delete_book: the book is queried and its active loans are counted
DeleteBookRead(s) ==
    LET b == sess[s].target
    IN  /\ sess[s].op = "delete_book" /\ sess[s].pc = "read"
        /\ IF ~require_admin(users, sess[s].caller) THEN Done(s, 403)
           ELSE IF b \notin DOMAIN books THEN Done(s, 404)
           ELSE IF ActiveLoansOfBook(loans, b) # {} THEN Done(s, 400)
           ELSE Goto(s, "commit", SnapBook(books, b))
        /\ Untouched
        /\ UNCHANGED <<now, last, base>>

\* delete_book: the flush loads book.loans, deletes them and the book
DeleteBookCommit(s) ==
    LET b == sess[s].target
    IN  /\ sess[s].op = "delete_book" /\ sess[s].pc = "commit"
        /\ books' = Remove(books, {b})
        /\ loans' = Remove(loans, LoansOfBook(loans, b))
        /\ Done(s, 204)
        /\ UNCHANGED <<users, categories, nextId>>
        /\ UNCHANGED <<now, last, base>>

(***************************************************************************)
(* SpecRace: two requests in flight at once.  The store they meet is the   *)
(* seeded one after a few loans made one request after the other.          *)
(***************************************************************************)
\* loans made before the two requests arrive
MaxPrelude == 2

Req(op, caller, target, quantity) ==
    [op |-> op, caller |-> caller, target |-> target, quantity |-> quantity]

Handle(db, req, t) ==
    CASE req.op = "create_loan" -> create_loan(db, req.caller, req.target, t)
      [] req.op = "return_loan" -> return_loan(db, req.caller, req.target, t)
      [] req.op = "update_book" ->
            update_book(db, req.caller, req.target,
                        [isbn |-> NULL, category_id |-> NULL,
                         quantity |-> req.quantity])
      [] req.op = "delete_book" -> delete_book(db, req.caller, req.target)

RECURSIVE Run(_, _, _)
Run(db, reqs, t) ==
    IF reqs = <<>> THEN db
    ELSE Run(Handle(db, Head(reqs), t).db, Tail(reqs), t)

SeedDB ==
    [users |-> seed_users, categories |-> seed_categories,
     books |-> seed_books, loans |-> Empty,
     nextId |-> [book |-> 3, loan |-> 1]]

PreludeRequests ==
    {Req("create_loan", c, b, NULL) : c \in Members, b \in SeededBooks}

Preludes ==
    UNION {[1..n -> PreludeRequests] : n \in 0..MaxPrelude}

RaceRequests ==
    {Req("create_loan", c, b, NULL) : c \in Members, b \in SeededBooks}
      \cup {Req("return_loan", 3, l, NULL) : l \in 1..MaxPrelude}
      \cup {Req("update_book", Librarian, 1, q) : q \in Quantities}
      \cup {Req("delete_book", Admin, 1, NULL)}

InitRace ==
    /\ \E p \in Preludes : base = Run(SeedDB, p, 0)
    /\ users = base.users
    /\ categories = base.categories
    /\ books = base.books
    /\ loans = base.loans
    /\ nextId = base.nextId
    /\ now = 0
    /\ last = NoRequest
    /\ sess = [s \in Sessions |-> Idle]

NextRace ==
    \/ \E s \in Sessions, r \in RaceRequests : Begin(s, r)
    \/ \E s \in Sessions : CreateLoanReadBook(s)
    \/ \E s \in Sessions : CreateLoanCheckUser(s)
    \/ \E s \in Sessions : CreateLoanCommit(s)
    \/ \E s \in Sessions : ReturnLoanRead(s)
    \/ \E s \in Sessions : ReturnLoanCommit(s)
    \/ \E s \in Sessions : UpdateBookRead(s)
    \/ \E s \in Sessions : UpdateBookCommit(s)
    \/ \E s \in Sessions : DeleteBookRead(s)
    \/ \E s \in Sessions : DeleteBookCommit(s)

SpecRace == InitRace /\ [][NextRace]_vars

(***************************************************************************)
(* SpecDoubleReturn: two return_loan requests in flight at once, from the  *)
(* member who borrowed and from the librarian.                             *)
(***************************************************************************)
ReturnRequests ==
    {Req("return_loan", c, l, NULL) : c \in {Joao, Librarian},
                                      l \in 1..MaxPrelude}

NextDoubleReturn ==
    \/ \E s \in Sessions, r \in ReturnRequests : Begin(s, r)
    \/ \E s \in Sessions : ReturnLoanRead(s)
    \/ \E s \in Sessions : ReturnLoanCommit(s)

SpecDoubleReturn == InitRace /\ [][NextDoubleReturn]_vars

(***************************************************************************)
(* Properties.                                                             *)
(***************************************************************************)
ActiveCount(ls, user_id) == Cardinality(ActiveLoansOf(ls, user_id))

OnLoan(ls, book_id) == Cardinality(ActiveLoansOfBook(ls, book_id))

BothDone == \A s \in Sessions : sess[s].pc = "done"

Created == {s \in Sessions : sess[s].op = "create_loan" /\ sess[s].code = 201}

\* C1: every book has 0 <= available <= quantity, whatever sequence of
\* create_book, update_book, delete_book, create_loan and return_loan ran.
C1_AvailableWithinQuantity ==
    \A b \in DOMAIN books :
        0 <= books[b].available /\ books[b].available <= books[b].quantity

\* C2: every book's available equals its quantity minus the number of its
\* loans whose stored status is active.
C2_AvailableIsQuantityMinusOnLoan ==
    \A b \in DOMAIN books :
        books[b].available = books[b].quantity - OnLoan(loans, b)

\* C3: when two concurrent create_loan requests on one book have both
\* answered, the book's available is not negative and has gone down by the
\* number of loans the two created.
C3_DecrementPerLoan ==
    \A b \in SeededBooks :
        (BothDone /\ \A s \in Sessions :
                        sess[s].op = "create_loan" /\ sess[s].target = b)
            => /\ books[b].available >= 0
               /\ base.books[b].available - books[b].available
                    = Cardinality(Created)

\* C4: no user has more than 3 loans whose stored status is active, also
\* while that user's create_loan requests run concurrently.
C4_AtMostThreeActive ==
    \A u \in DOMAIN users : ActiveCount(loans, u) <= MAX_ACTIVE_LOANS

\* the pairs of requests C5 names
SameBookLendReturn(r, q) ==
    /\ r.op = "create_loan" /\ q.op = "return_loan"
    /\ q.target \in DOMAIN base.loans
    /\ base.loans[q.target].book_id = r.target

LendDelete(r, q) == r.op = "create_loan" /\ q.op = "delete_book"

SameUserTwoBooks(r, q) ==
    /\ r.op = "create_loan" /\ q.op = "create_loan"
    /\ r.caller = q.caller /\ r.target # q.target

ReturnUpdate(r, q) == r.op = "return_loan" /\ q.op = "update_book"

NamedPair(r, q) ==
    \/ SameBookLendReturn(r, q) \/ SameBookLendReturn(q, r)
    \/ LendDelete(r, q) \/ LendDelete(q, r)
    \/ SameUserTwoBooks(r, q)
    \/ ReturnUpdate(r, q) \/ ReturnUpdate(q, r)

AsRequest(s) ==
    Req(sess[s].op, sess[s].caller, sess[s].target, sess[s].quantity)

SerialOutcomes(db, r, q, t) ==
    {Run(db, <<r, q>>, t), Run(db, <<q, r>>, t)}

\* C5: two concurrent requests other than two create_loan on one book end
\* in a state that one of the two serial orders of the same requests gives.
C5_NamedPairsSerializable ==
    (BothDone /\ NamedPair(AsRequest(1), AsRequest(2)))
        => \E d \in SerialOutcomes(base, AsRequest(1), AsRequest(2), now) :
                d.books = books /\ d.loans = loans

(***************************************************************************)
(* The lending desk, one request at a time.  last' is the request the step *)
(* serves; the unprimed variables are the stored state it finds.           *)
(***************************************************************************)
Lends == last'.op = "create_loan"

Lent == last'.op = "create_loan" /\ last'.code = 201

Returned == last'.op = "return_loan" /\ last'.code = 200

OnShelf(book_id) == book_id \in DOMAIN books /\ books[book_id].available > 0

\* C6: a create_loan by a user who has three or more loans of status active,
\* for a book with a copy available, is answered 400 with the eligibility
\* error, and no loan is created.
C6_FourthLoanRejected ==
    [][(Lends /\ ActiveCount(loans, last'.caller) >= MAX_ACTIVE_LOANS
              /\ OnShelf(last'.target))
        => /\ last'.code = 400
           /\ last'.detail = "too_many_active"
           /\ loans' = loans]_vars

C6_Witness ==
    /\ last.op = "create_loan"
    /\ last.code = 400
    /\ last.detail = "too_many_active"
    /\ ActiveCount(loans, last.caller) = MAX_ACTIVE_LOANS
    /\ OnShelf(last.target)

\* C7: a create_loan by a user who has an active loan whose due date is
\* earlier than the current time is answered 400 and creates no loan, for
\* every book of the catalogue, with or without a copy available, and for
\* every number of active loans of the user.
C7_OverdueBorrowerRejected ==
    [][(Lends /\ OverdueLoansOf(loans, last'.caller, now) # {}
              /\ last'.target \in DOMAIN books)
        => /\ last'.code = 400
           /\ loans' = loans]_vars

C7_Witness ==
    /\ last.op = "create_loan"
    /\ last.code = 400
    /\ last.detail = "has_overdue"
    /\ OverdueLoansOf(loans, last.caller, now) # {}
    /\ ActiveCount(loans, last.caller) < MAX_ACTIVE_LOANS
    /\ OnShelf(last.target)

\* C8: a create_loan that is rejected, for whichever reason (no such book,
\* no copy available, three active loans, an overdue loan), leaves the
\* stored state as it was: no loan is added, no book changes.
C8_RejectedLoanChangesNothing ==
    [][(Lends /\ last'.code # 201)
        => /\ last'.detail \in {"not_found", "not_available",
                                "too_many_active", "has_overdue"}
           /\ UNCHANGED <<users, categories, books, loans, nextId>>]_vars

C8_Witness ==
    /\ last.op = "create_loan"
    /\ last.code = 400
    /\ last.detail = "not_available"
    /\ books[last.target].available = 0
    /\ \E c \in Members : check_user_can_borrow(loans, c, now) # "ok"

\* C9: a successful create_loan adds exactly one loan: of the caller, of the
\* requested book, active, not returned, due 14 days after its loan date.
\* It takes one copy of that book off the shelf and changes no other loan
\* and no other book.
C9_LoanCreated ==
    [][Lent =>
        \E id \in DOMAIN loans' \ DOMAIN loans :
            /\ DOMAIN loans' = DOMAIN loans \cup {id}
            /\ \A i \in DOMAIN loans : loans'[i] = loans[i]
            /\ loans'[id].user_id = last'.caller
            /\ loans'[id].book_id = last'.target
            /\ loans'[id].status = "active"
            /\ loans'[id].return_date = NULL
            /\ loans'[id].loan_date = now
            /\ loans'[id].due_date = loans'[id].loan_date + 14
            /\ last'.target \in DOMAIN books
            /\ books' = [books EXCEPT ![last'.target].available = @ - 1]]_vars

C9_Witness ==
    /\ last.op = "create_loan"
    /\ last.code = 201
    /\ now > 0
    /\ Cardinality(DOMAIN loans) > 1
    /\ \E i \in DOMAIN loans :
            /\ loans[i].loan_date = now
            /\ loans[i].user_id = last.caller
            /\ loans[i].book_id = last.target

\* C10: a successful return_loan of an active loan sets its status to
\* returned and its return date to the current time, puts one copy of its
\* book back on the shelf, and changes no other loan and no other book.
C10_LoanReturned ==
    [][Returned =>
        /\ last'.target \in DOMAIN loans
        /\ loans[last'.target].status = "active"
        /\ loans' = [loans EXCEPT ![last'.target].status = "returned",
                                  ![last'.target].return_date = now]
        /\ books' = [books EXCEPT
                        ![loans[last'.target].book_id].available = @ + 1]]_vars

C10_Witness ==
    /\ last.op = "return_loan"
    /\ last.code = 200
    /\ now > 0
    /\ loans[last.target].status = "returned"
    /\ loans[last.target].return_date = now
    /\ Cardinality(DOMAIN loans) > 1

(***************************************************************************)
(* Returns.                                                                *)
(***************************************************************************)
Returns == last'.op = "return_loan"

ReturnedBefore == last.op = "return_loan" /\ last.code = 200

\* C11: return_loan succeeds only on a loan whose stored status is active.
\* On a missing loan it answers 404, on a loan that is not active 400, and
\* in both cases no loan and no book changes; a second return_loan of the
\* same loan, right after the first, leaves the book's available as it is.
C11_ReturnOnlyActive ==
    [][Returns =>
        /\ last'.target \notin DOMAIN loans
            => last'.code = 404 /\ loans' = loans /\ books' = books
        /\ (last'.target \in DOMAIN loans
                /\ loans[last'.target].status # "active")
            => last'.code = 400 /\ loans' = loans /\ books' = books
        /\ last'.code = 200
            => /\ last'.target \in DOMAIN loans
               /\ loans[last'.target].status = "active"
        /\ (ReturnedBefore /\ last'.target = last.target)
            => last'.code = 400 /\ books' = books]_vars

C11_Witness ==
    /\ last.op = "return_loan"
    /\ last.code = 400
    /\ last.detail = "not_active"
    /\ loans[last.target].status = "returned"
    /\ books[loans[last.target].book_id].available
            = books[loans[last.target].book_id].quantity

\* C12: a member's return_loan of an active loan of another user is
\* answered 403 and changes neither the loan nor the book; a member's
\* return_loan of an own active loan, and an admin's or a librarian's
\* return_loan of any active loan, succeeds.
C12_MembersReturnOwnLoans ==
    [][(Returns /\ last'.target \in DOMAIN loans
                /\ loans[last'.target].status = "active")
        => IF /\ users[last'.caller].role = "member"
              /\ loans[last'.target].user_id # last'.caller
           THEN last'.code = 403 /\ loans' = loans /\ books' = books
           ELSE last'.code = 200
                    /\ loans'[last'.target].status = "returned"]_vars

C12_Witness ==
    /\ last.op = "return_loan"
    /\ last.code = 403
    /\ users[last.caller].role = "member"
    /\ loans[last.target].status = "active"
    /\ loans[last.target].user_id # last.caller
    /\ \E i \in DOMAIN loans :
            loans[i].status = "returned" /\ loans[i].user_id = last.caller

(***************************************************************************)
(* Overdue is a reading of the clock.                                      *)
(***************************************************************************)
PastDue(i) == now > loans[i].due_date

Active == {i \in DOMAIN loans : loans[i].status = "active"}

ClassifiedOverdue(i) ==
    /\ i \in list_overdue_loans(loans, now)
    /\ i \in list_loans(loans, "overdue", now)
    /\ i \in OverdueLoansOf(loans, loans[i].user_id, now)
    /\ check_user_can_borrow(loans, loans[i].user_id, now) # "ok"

NowhereOverdue(i) ==
    /\ i \notin list_overdue_loans(loans, now)
    /\ i \notin list_loans(loans, "overdue", now)
    /\ i \notin OverdueLoansOf(loans, loans[i].user_id, now)

OverdueByTheClock ==
    \A i \in Active : IF PastDue(i) THEN ClassifiedOverdue(i)
                                    ELSE NowhereOverdue(i)

StaysOverdue ==
    /\ last'.op = "tick" => loans' = loans
    /\ \A i \in Active :
        (PastDue(i) /\ ~(Returned /\ last'.target = i))
            => /\ loans'[i].status = "active"
               /\ i \in list_overdue_loans(loans', now')

\* C13: a loan of stored status active is classified overdue, by the
\* overdue listings and by the eligibility check, exactly when the current
\* time is strictly greater than its due date.  The passage of time changes
\* no loan; the loan stays classified overdue, its stored status active,
\* until return_loan succeeds on it.
C13_OverdueIsQueryTime == []OverdueByTheClock /\ [][StaysOverdue]_vars

C13_Witness ==
    /\ last.op = "tick"
    /\ \E i \in Active : PastDue(i) /\ ClassifiedOverdue(i)
    /\ \E i \in Active : ~PastDue(i) /\ NowhereOverdue(i)

\* C14: overdue is never a stored status: every loan in storage, those the
\* seed writes included, has status active or returned.
C14_StoredStatusActiveOrReturned ==
    \A i \in DOMAIN loans : loans[i].status \in {"active", "returned"}

(***************************************************************************)
(* The worked example of the lending rules.                                *)
(***************************************************************************)
FullShelfOfTwo(book_id) ==
    books[book_id].quantity = 2 /\ books[book_id].available = 2

\* the user passes the eligibility check now and after one more loan
EligibleTwice(user_id) ==
    /\ check_user_can_borrow(loans, user_id, now) = "ok"
    /\ ActiveCount(loans, user_id) + 1 < MAX_ACTIVE_LOANS

Example(user_id, book_id) ==
    LET first == create_loan(DB, user_id, book_id, now)
        second == create_loan(first.db, user_id, book_id, now)
        third == create_loan(second.db, user_id, book_id, now)
        back == return_loan(third.db, user_id, nextId.loan, now)
    IN  /\ first.code = 201
        /\ first.db.books[book_id].available = 1
        /\ second.code = 201
        /\ second.db.books[book_id].available = 0
        /\ third.code = 400
        /\ third.db = second.db
        /\ third.db.books[book_id].available = 0
        /\ back.code = 200
        /\ back.db.loans[nextId.loan].status = "returned"
        /\ back.db.books[book_id].available = 1

\* C15: from a book with quantity 2 and available 2 and a user eligible for
\* two loans, create_loan leaves available 1, a second create_loan leaves
\* available 0, a third create_loan is rejected with available still 0,
\* and return_loan of the first loan leaves available 1.
C15_WorkedExample ==
    \A u \in Members, b \in DOMAIN books :
        (FullShelfOfTwo(b) /\ EligibleTwice(u)) => Example(u, b)

\* the third attempt of the example has just been rejected
C15_Witness ==
    /\ last.op = "create_loan"
    /\ last.code = 400
    /\ last.detail = "not_available"
    /\ books[last.target].quantity = 2
    /\ books[last.target].available = 0
    /\ Cardinality({i \in ActiveLoansOfBook(loans, last.target) :
                        loans[i].user_id = last.caller}) = 2
    /\ \E b \in DOMAIN books : FullShelfOfTwo(b)
    /\ ActiveCount(loans, last.caller) = 2

(***************************************************************************)
(* Deletion.                                                               *)
(***************************************************************************)
StoredUnchanged == UNCHANGED <<users, categories, books, loans, nextId>>

DeletesLentBook ==
    /\ last'.op = "delete_book"
    /\ require_admin(users, last'.caller)
    /\ last'.target \in DOMAIN books
    /\ ActiveLoansOfBook(loans, last'.target) # {}

DeletesUsedCategory ==
    /\ last'.op = "delete_category"
    /\ require_admin(users, last'.caller)
    /\ last'.target \in DOMAIN categories
    /\ BooksOfCategory(books, last'.target) # {}

ActiveLoansHaveBooks ==
    \A i \in DOMAIN loans :
        loans[i].status = "active" => loans[i].book_id \in DOMAIN books

\* C16: the admin's delete_book of a book that has a loan of status active
\* is answered 400, and so is the admin's delete_category of a category
\* that a book references; both leave the stored state unchanged.  In every
\* reachable state every active loan references an existing book.
C16_LinkedRowsNotDeleted ==
    /\ [][(DeletesLentBook \/ DeletesUsedCategory)
            => last'.code = 400 /\ StoredUnchanged]_vars
    /\ []ActiveLoansHaveBooks

C16_Witness ==
    /\ last.op = "delete_book"
    /\ last.code = 400
    /\ last.detail = "active_loans"
    /\ ActiveLoansOfBook(loans, last.target) # {}
    /\ \E k \in DOMAIN categories : BooksOfCategory(books, k) # {}
    /\ Cardinality(DOMAIN books) < nextId.book - 1

\* C17: no request removes a loan from storage: the loans of a state are
\* loans of the next state, also when delete_book succeeds.
C17_LoansOnlyGrow ==
    [][\A i \in DOMAIN loans : i \in DOMAIN loans']_vars

(***************************************************************************)
(* Unique fields.                                                          *)
(***************************************************************************)
Distinct(table, field) ==
    \A i, j \in DOMAIN table : i # j => table[i][field] # table[j][field]

UniqueFields ==
    /\ Distinct(users, "username")
    /\ Distinct(users, "email")
    /\ Distinct(books, "isbn")
    /\ Distinct(categories, "name")

Keepers == {c \in DOMAIN users : require_admin_or_librarian(users, c)}

Rejected(r) == r.code = 400 /\ r.db = DB

\* a value that a record holds is refused to every other record
ConflictsRejected ==
    /\ \A d \in Registrations :
        (UsersNamed(users, d.username) # {}
            \/ UsersWithEmail(users, d.email) # {})
            => Rejected(register(DB, d))
    /\ \A c \in Keepers, d \in NewBooks :
        BooksWithIsbn(books, d.isbn) # {} => Rejected(create_book(DB, c, d))
    /\ \A c \in Keepers, b \in DOMAIN books, d \in IsbnUpdate :
        BooksWithIsbn(books, d.isbn) \ {b} # {}
            => Rejected(update_book(DB, c, b, d))
    /\ \A c \in Keepers, n \in CategoryNames :
        CategoriesNamed(categories, n) # {}
            => Rejected(create_category(DB, c, [name |-> n]))
    /\ \A c \in Keepers, k \in DOMAIN categories, n \in CategoryNames :
        CategoriesNamed(categories, n) \ {k} # {}
            => Rejected(update_category(DB, c, k, [name |-> n]))

\* an update that carries the record's own current value is accepted
OwnValueAccepted ==
    /\ \A c \in Keepers, b \in DOMAIN books :
        LET r == update_book(DB, c, b, [isbn |-> books[b].isbn,
                                        category_id |-> NULL,
                                        quantity |-> NULL])
        IN  r.code = 200 /\ r.db = DB
    /\ \A c \in Keepers, k \in DOMAIN categories :
        LET r == update_category(DB, c, k, [name |-> categories[k].name])
        IN  r.code = 200 /\ r.db = DB

\* C18: no two users share a username or an email, no two books an ISBN, no
\* two categories a name.  register, create_book, update_book,
\* create_category and update_category answer 400 to a value that another
\* record holds and leave the stored state unchanged; an update that
\* carries the record's own ISBN or name is accepted.
C18_UniqueFieldsStayUnique ==
    UniqueFields /\ ConflictsRejected /\ OwnValueAccepted

C18_Witness ==
    /\ last.op = "update_book"
    /\ last.code = 400
    /\ last.detail = "isbn_exists"
    /\ Cardinality(DOMAIN books) = 2
    /\ Cardinality(DOMAIN users) > Cardinality(DOMAIN seed_users)
    /\ Cardinality(DOMAIN categories) > Cardinality(DOMAIN seed_categories)

(***************************************************************************)
(* Roles.                                                                  *)
(***************************************************************************)
KeeperRequests ==
    {"create_book", "update_book", "create_category", "update_category"}

AdminRequests == {"delete_book", "delete_category"}

RoleOfCaller == users[last'.caller].role

CatalogueUnchanged == books' = books /\ categories' = categories

\* C19: create_book, update_book, create_category and update_category from
\* a caller who is neither admin nor librarian, and delete_book and
\* delete_category from a caller who is not admin, are answered 403 and
\* leave every book and every category unchanged; the same requests from a
\* caller with the role are not answered 403.
C19_CatalogueNeedsRole ==
    [][/\ last'.op \in KeeperRequests
            => IF RoleOfCaller \in {"admin", "librarian"}
               THEN last'.code # 403
               ELSE last'.code = 403 /\ CatalogueUnchanged
       /\ last'.op \in AdminRequests
            => IF RoleOfCaller = "admin"
               THEN last'.code # 403
               ELSE last'.code = 403 /\ CatalogueUnchanged]_vars

C19_Witness ==
    /\ last.op = "delete_book"
    /\ last.code = 403
    /\ users[last.caller].role = "librarian"
    /\ last.target \in DOMAIN books
    /\ Cardinality(DOMAIN categories) > Cardinality(DOMAIN seed_categories)

ChangesRole == last'.op = "update_user_role"

RolesChanged ==
    {u \in DOMAIN users : users'[u].role # users[u].role}

\* what an admin's request does, for every target and every role asked
AdminSetsRole ==
    \A c \in DOMAIN users, u \in UserIds, r \in UserRole :
        require_admin(users, c)
            => LET a == update_user_role(DB, c, u, r)
               IN  IF u \in DOMAIN users
                   THEN /\ a.code = 200
                        /\ a.db = [DB EXCEPT !.users[u].role = r]
                   ELSE a.code = 404 /\ a.db = DB

RolesChangeByAdmin ==
    /\ (last'.op = "register" /\ last'.code = 201)
        => /\ DOMAIN users' = DOMAIN users \cup {last'.target}
           /\ last'.target \notin DOMAIN users
           /\ users'[last'.target].role = "member"
           /\ \A u \in DOMAIN users : users'[u] = users[u]
    /\ RolesChanged # {}
        => /\ ChangesRole
           /\ last'.code = 200
           /\ require_admin(users, last'.caller)
           /\ RolesChanged = {last'.target}
    /\ (ChangesRole /\ ~require_admin(users, last'.caller))
        => last'.code = 403 /\ users' = users
    /\ (ChangesRole /\ require_admin(users, last'.caller)
                    /\ last'.target \notin DOMAIN users)
        => last'.code = 404 /\ users' = users
    /\ (ChangesRole /\ last'.code = 200)
        => /\ DOMAIN users' = DOMAIN users
           /\ \A u \in DOMAIN users \ {last'.target} : users'[u] = users[u]
           /\ users'[last'.target].username = users[last'.target].username
           /\ users'[last'.target].email = users[last'.target].email

\* C20: a user is a member at registration.  A role changes only in a
\* successful update_user_role whose caller is admin when it is served: a
\* caller who is not admin is answered 403 and no role changes, a missing
\* target is answered 404, and a successful request sets the role of the
\* target to the role asked and changes no other user.
C20_RolesChangeByAdminOnly == []AdminSetsRole /\ [][RolesChangeByAdmin]_vars

C20_Witness ==
    /\ last.op = "update_user_role"
    /\ last.code = 403
    /\ last.caller = Admin
    /\ users[Admin].role = "member"
    /\ \E u \in DOMAIN users \ DOMAIN seed_users : users[u].role = "admin"

(***************************************************************************)
(* Listings.                                                               *)
(***************************************************************************)
MemberCallers == {c \in DOMAIN users : users[c].role = "member"}

\* the store without the loans of the users other than user_id
OwnLoansOnly(user_id) ==
    [DB EXCEPT !.loans = Remove(@, {i \in DOMAIN loans :
                                        loans[i].user_id # user_id})]

\* every row of every page the answer may carry is a loan of user_id
OnlyLoansOf(r, user_id) ==
    \A p \in r.pages : \A k \in 1..Len(p) : p[k][2].user_id = user_id

\* a member's listing request has been served: the requests it may have been
ServedTo(c) ==
    {q \in Queries : /\ last.op \in {"list_loans", "get_my_loans"}
                     /\ last.caller = c
                     /\ last.op = "list_loans" => q.user_id = last.target}

\* C21: to a member, list_loans and get_my_loans return only loans of the
\* caller, whatever status and book filter the request carries; list_loans
\* with the user_id of another user is answered 403; the answer is the one
\* the member gets from the store without the other users' loans, so two
\* states that differ only in other users' loans give the same listing.
C21_MemberSeesOwnLoans ==
    \A c \in MemberCallers : \A q \in ServedTo(c) :
        LET r == list_loans_request(DB, c, q, now)
            m == get_my_loans(DB, c, q)
        IN  /\ (q.user_id # NULL /\ q.user_id # c) => r.code = 403
            /\ (q.user_id \in {NULL, c} /\ q.status # "lost") => r.code = 200
            /\ OnlyLoansOf(r, c)
            /\ m.code = 200
            /\ OnlyLoansOf(m, c)
            /\ r = list_loans_request(OwnLoansOnly(c), c, q, now)
            /\ m = get_my_loans(OwnLoansOnly(c), c, q)

C21_Witness ==
    /\ last.op = "list_loans"
    /\ last.code = 403
    /\ last.caller \in MemberCallers
    /\ \E i \in DOMAIN loans : loans[i].user_id = last.target
    /\ \E i \in list_loans(loans, "overdue", now) :
            loans[i].user_id = last.caller
    /\ \E q \in Queries :
            list_loans_request(DB, Librarian, q, now).total = 2

(***************************************************************************)
(* The catalogue's bookkeeping.                                            *)
(***************************************************************************)
Updated == last'.op = "update_book" /\ last'.code = 200

\* C22: update_book takes no available value from the request; when it
\* changes the quantity of a book, available changes by the same
\* difference, so quantity - available of the book is the same before and
\* after, for every new quantity and every number of copies on loan.
C22_UpdateKeepsCopiesOnLoan ==
    [][Updated =>
        /\ DOMAIN books' = DOMAIN books
        /\ \A b \in DOMAIN books :
            books'[b].quantity - books'[b].available
                = books[b].quantity - books[b].available]_vars

BookBodies ==
    [isbn : Isbns, category_id : CategoryIds, quantity : Quantities,
     available : {NULL} \cup Quantities]

\* the store after create_book has entered the body as book id
Entered(db, id, body) ==
    /\ id \notin DOMAIN books
    /\ DOMAIN db.books = DOMAIN books \cup {id}
    /\ db.books[id].quantity = body.quantity
    /\ db.books[id].available = body.quantity
    /\ db.books[id].isbn = body.isbn
    /\ db.books[id].category_id = body.category_id
    /\ \A b \in DOMAIN books : db.books[b] = books[b]
    /\ db.loans = loans /\ db.categories = categories /\ db.users = users

\* C23: create_book stores the new book with available equal to quantity,
\* whatever available value the body carries, and changes no existing book;
\* it is rejected with 400 and changes nothing when the category does not
\* exist.
C23_NewBookFullyAvailable ==
    \A c \in Keepers, body \in BookBodies :
        LET r == create_book(DB, c, BookCreate(body))
        IN  /\ r.code = 201 => Entered(r.db, nextId.book, body)
            /\ body.category_id \notin DOMAIN categories
                => r.code = 400 /\ r.db = DB
            /\ (body.category_id \in DOMAIN categories
                    /\ BooksWithIsbn(books, body.isbn) = {})
                => r.code = 201

C23_Witness ==
    /\ last.op = "create_book"
    /\ last.code = 201
    /\ books[last.target].available = books[last.target].quantity
    /\ DOMAIN books \ {last.target} # {}
    /\ CategoryIds \ DOMAIN categories # {}

(***************************************************************************)
(* One overdue predicate, one eligibility rule.                            *)
(***************************************************************************)
OverdueNow(i) == loans[i].status = "active" /\ loans[i].due_date < now

\* the statistics of the borrower of loan i count it as overdue: without
\* the loan the count is one less
StatsCountOverdue(i) ==
    LET u == loans[i].user_id
        without == [DB EXCEPT !.loans = Remove(@, {i})]
    IN  get_user_stats(DB, Librarian, u, now).overdue_loans
            = get_user_stats(without, Librarian, u, now).overdue_loans + 1

OverdueQuery ==
    [status |-> "overdue", user_id |-> NULL, book_id |-> NULL, page |-> 1,
     limit |-> 1]

\* C24: at one instant and in one state, list_loans with status overdue,
\* list_overdue_loans, the eligibility check and get_user_stats count a
\* loan as overdue exactly when its stored status is active and its due
\* date is strictly earlier than now; a loan due now is not overdue.
C24_OneOverduePredicate ==
    /\ \A i \in DOMAIN loans :
        /\ i \in list_loans(loans, "overdue", now) <=> OverdueNow(i)
        /\ i \in list_overdue_loans(loans, now) <=> OverdueNow(i)
        /\ i \in OverdueLoansOf(loans, loans[i].user_id, now)
                <=> OverdueNow(i)
        /\ StatsCountOverdue(i) <=> OverdueNow(i)
        /\ loans[i].due_date = now => ~StatsCountOverdue(i)
    /\ list_loans_request(DB, Librarian, OverdueQuery, now).total
            = Cardinality(list_overdue_loans(loans, now))
    /\ \A u \in Members :
        /\ get_user_stats(DB, Librarian, u, now).overdue_loans
                = Cardinality(OverdueLoansOf(loans, u, now))
        /\ check_user_can_borrow(loans, u, now) = "has_overdue"
                => get_user_stats(DB, Librarian, u, now).overdue_loans > 0

\* the statistics are read while one loan is overdue and another, made on
\* the due date of the first, is not
C24_Witness ==
    /\ last.op = "get_user_stats"
    /\ last.code = 200
    /\ \E i, j \in DOMAIN loans :
        /\ OverdueNow(i)
        /\ loans[j].status = "active"
        /\ loans[j].loan_date = loans[i].due_date
        /\ loans[j].user_id = loans[i].user_id
        /\ ~OverdueNow(j)

\* C25: in every state and at every instant, get_user_stats reports
\* can_borrow for a user exactly when check_user_can_borrow, the check of
\* create_loan, does not reject that user.
C25_CanBorrowIsTheCheck ==
    \A u \in Members : \A c \in {u, Librarian, Admin} :
        get_user_stats(DB, c, u, now).can_borrow
            <=> check_user_can_borrow(loans, u, now) = "ok"

\* the statistics of a user at the limit, no loan overdue, have been read
C25_Witness ==
    /\ last.op = "get_user_stats"
    /\ last.code = 200
    /\ ActiveCount(loans, last.target) = MAX_ACTIVE_LOANS
    /\ OverdueLoansOf(loans, last.target, now) = {}
    /\ ~get_user_stats(DB, last.caller, last.target, now).can_borrow
    /\ now > 0

(***************************************************************************)
(* The life of a loan.                                                     *)
(***************************************************************************)
ReturnDateIffReturned ==
    \A i \in DOMAIN loans :
        loans[i].return_date # NULL <=> loans[i].status = "returned"

\* a returned loan that the step leaves in storage is as it was
ReturnedStays ==
    \A i \in DOMAIN loans :
        (loans[i].status = "returned" /\ i \in DOMAIN loans')
            => /\ loans'[i].status = "returned"
               /\ loans'[i].return_date = loans[i].return_date

\* C26: returned is terminal: once the status of a loan is returned no
\* later request changes its status or its return date; and a loan that
\* create_loan made has a return date exactly when its status is returned.
C26_ReturnedIsTerminal == []ReturnDateIffReturned /\ [][ReturnedStays]_vars

\* a loan returned at an earlier instant has been brought back once more
C26_Witness ==
    /\ last.op = "return_loan"
    /\ last.code = 400
    /\ last.target \in DOMAIN loans
    /\ loans[last.target].status = "returned"
    /\ loans[last.target].return_date < now
    /\ \E i \in DOMAIN loans : loans[i].return_date = NULL

(***************************************************************************)
(* A loan stored with status overdue.                                      *)
(***************************************************************************)
Dead == {i \in DOMAIN loans : loans[i].status = "overdue"}

Without(i) == [DB EXCEPT !.loans = Remove(@, {i})]

\* every rule reads the store as if the loan were not in it
DeadLoanIgnored ==
    \A i \in Dead :
        /\ \A c \in Members \cup Staff :
            LET r == return_loan(DB, c, i, now)
            IN  r.code = 400 /\ r.db = DB
        /\ \A u \in DOMAIN users :
            /\ i \notin ActiveLoansOf(loans, u)
            /\ i \notin OverdueLoansOf(loans, u, now)
            /\ check_user_can_borrow(loans, u, now)
                    = check_user_can_borrow(Without(i).loans, u, now)
        /\ \A b \in DOMAIN books :
            /\ i \notin ActiveLoansOfBook(loans, b)
            /\ delete_book(DB, Admin, b).code
                    = delete_book(Without(i), Admin, b).code
        /\ \A f \in {"active", "returned", "overdue"} :
            i \notin list_loans(loans, f, now)

\* a step leaves the loan as it is, if it leaves it in storage, and does not
\* put a copy of its book back on the shelf for it
DeadLoanStays ==
    \A i \in Dead :
        /\ i \in DOMAIN loans' => loans'[i] = loans[i]
        /\ (last'.op = "return_loan" /\ last'.target = i) => books' = books

\* C27: a loan whose stored status is overdue is dead: return_loan answers
\* 400 on it, it counts neither toward the limit of three active loans nor
\* as an overdue loan of its borrower, it does not block delete_book, no
\* status filter of list_loans selects it, and no request changes it.
C27_StoredOverdueIsDead == []DeadLoanIgnored /\ [][DeadLoanStays]_vars

\* joao, whose seeded loan of status overdue is past its due date, has
\* borrowed a book
C27_Witness ==
    /\ last.op = "create_loan"
    /\ last.code = 201
    /\ last.caller = Joao
    /\ \E i \in Dead : loans[i].user_id = Joao /\ loans[i].due_date < now
    /\ \E b \in DOMAIN seed_books_on_loan : b \notin DOMAIN books

(***************************************************************************)
(* Referential integrity.                                                  *)
(***************************************************************************)
Integrity(db) ==
    /\ \A i \in DOMAIN db.loans :
        /\ db.loans[i].book_id \in DOMAIN db.books
        /\ db.loans[i].user_id \in DOMAIN db.users
    /\ \A b \in DOMAIN db.books :
        db.books[b].category_id \in DOMAIN db.categories

\* the category a request for a book may carry: none, 0, an id
CategoryChange ==
    [isbn : {NULL}, category_id : {NULL, 0} \cup CategoryIds,
     quantity : {NULL}]

\* the stores one request away from the current one
AfterOneRequest ==
    {create_book(DB, c, BookCreate(d)).db : c \in Callers, d \in BookBodies}
      \cup {update_book(DB, c, b, d).db :
                c \in Callers, b \in DOMAIN books, d \in CategoryChange}
      \cup {delete_book(DB, c, b).db : c \in Callers, b \in BookIds}
      \cup {delete_category(DB, c, k).db : c \in Callers, k \in CategoryIds}
      \cup {create_loan(DB, c, b, now).db : c \in DOMAIN users, b \in BookIds}
      \cup {return_loan(DB, c, l, now).db : c \in DOMAIN users, l \in LoanIds}
      \cup {register(DB, d).db : d \in Registrations}

\* C28: in every state that sequential requests reach, every loan's book
\* and user exist and every book's category exists: delete_book takes the
\* remaining loans of the book with it, delete_category is refused while a
\* book references the category, create_book and update_book accept only
\* an existing category.
C28_ReferencesResolve ==
    Integrity(DB) /\ \A db \in AfterOneRequest : Integrity(db)

\* a title has left the catalogue and its returned loan with it, while
\* another title is on loan and a category is gone
C28_Witness ==
    /\ last.op = "delete_book"
    /\ last.code = 204
    /\ Cardinality(DOMAIN loans) < nextId.loan - 1
    /\ \E i \in DOMAIN loans : loans[i].status = "active"
    /\ DOMAIN seed_categories \ DOMAIN categories # {}

(***************************************************************************)
(* Two returns of one loan.                                                *)
(***************************************************************************)
\* both requests were return_loan of loan l and have answered, one of them
\* or both with success
ReturnedTwice(l) ==
    /\ BothDone
    /\ \A s \in Sessions : sess[s].op = "return_loan" /\ sess[s].target = l
    /\ \E s \in Sessions : sess[s].code = 200

\* C29: after two concurrent return_loan requests on one active loan, in
\* whichever order their steps ran, the loan is returned and the available
\* of its book is exactly 1 more than before the two requests, never 2
\* more.
C29_DoubleReturnAddsOne ==
    \A l \in DOMAIN base.loans :
        (ReturnedTwice(l) /\ base.loans[l].status = "active")
            => /\ loans[l].status = "returned"
               /\ books[loans[l].book_id].available
                    = base.books[loans[l].book_id].available + 1
               /\ \A b \in DOMAIN books \ {loans[l].book_id} :
                    books[b] = base.books[b]

\* both requests read the loan as active and both answered 200
C29_Witness ==
    /\ BothDone
    /\ \A s \in Sessions : sess[s].op = "return_loan" /\ sess[s].code = 200
    /\ sess[1].target = sess[2].target
    /\ sess[1].caller # sess[2].caller

(***************************************************************************)
(* The last admin.                                                         *)
(***************************************************************************)
AdminsOf(us) == {u \in DOMAIN us : us[u].role = "admin"}

\* the only admin asks for another role for themselves and gets it
SoleAdminCanResign ==
    \A a \in DOMAIN users :
        AdminsOf(users) = {a}
            => \A r \in {"member", "librarian"} :
                LET res == update_user_role(DB, a, a, r)
                IN  /\ res.code = 200
                    /\ res.db.users[a].role = r
                    /\ AdminsOf(res.db.users) = {}

\* without an admin no step changes a role, and no admin appears
NoAdminIsForever ==
    AdminsOf(users) = {}
        => /\ \A u \in DOMAIN users : users'[u].role = users[u].role
           /\ AdminsOf(users') = {}
           /\ ChangesRole => last'.code = 403

\* C30: update_user_role does not exclude the caller as target: in a state
\* with exactly one admin, that admin sets their own role to member or
\* librarian, which leaves no admin; from then on no request changes the
\* role of any user.
C30_LastAdminCanResign ==
    []SoleAdminCanResign /\ [][NoAdminIsForever]_vars

\* the admin of the seed has given up the role and then asked for a role
\* change, in vain
C30_Witness ==
    /\ last.op = "update_user_role"
    /\ last.code = 403
    /\ last.caller = Admin
    /\ AdminsOf(users) = {}
    /\ users[Admin].role \in {"member", "librarian"}
    /\ Cardinality(DOMAIN users) > Cardinality(DOMAIN seed_users)

====
